---- MODULE Spec2Model ----
(***************************************************************************)
(* Flip clock driver (flipclock.ino): three stepper-driven flap wheels     *)
(* (0 = hours, 1 = minutes tens, 2 = minutes ones), each with an endstop.  *)
(* The sketch is a single control flow; it is modelled as a program        *)
(* counter pc with a stack of return labels stk, one action per loop       *)
(* iteration or straight-line block of the source.                         *)
(***************************************************************************)
EXTENDS Integers, Sequences, FiniteSets, TLC

(***************************************************************************)
(* Configuration of the sketch                                             *)
(***************************************************************************)
STEPS_PER_REV == 4096

ENDSTOP_DEBOUNCE_READS == 3

\* unsigned int is 16 bits wide on the AVR boards the sketch targets
UINT_RANGE == 65536

\* the nudge of the shared-endstop clearing routine of setup()
CLEAR_NUDGE == 200

Steppers == 0 .. 2

CoilPins == 0 .. 3

endstop_pins == (0 :> 21) @@ (1 :> 20) @@ (2 :> 20)

starting_digits == (0 :> 0) @@ (1 :> 0) @@ (2 :> 9)

starting_offset == (0 :> 110) @@ (1 :> 80) @@ (2 :> 265)

(***************************************************************************)
(* Bounds of the environment the sketch is run in                          *)
(***************************************************************************)
\* length, in half-steps, of the arc on which a working endstop is pressed
ArcLen == 20

VARIABLES
    pc,                \* position of the control flow
    stk,               \* return labels of the calls in progress
    stepper_pos,       \* stepper_pos[]
    drive_step,        \* drive_step[]
    pins,              \* level of the four coil pins of each stepper
    led,               \* level of LED_PIN
    stepper_num,       \* argument stepper_num of the function running
    digit,             \* argument digit of step_to_digit
    target_pos,        \* argument target_pos of step_to_position
    steps,             \* argument steps of step_num
    total_steps,       \* local total_steps of step_to_home
    endstop_repeats,   \* local endstop_repeats of step_to_home
    setup_total_steps, \* local total_steps of setup
    now,               \* local now of loop: the clock reading of the cycle
    hr, tens, ones,    \* locals of loop
    endstop_env,       \* what drives the endstop lines
    arc,               \* length, in half-steps, of the arc on which a switch is pressed
    angle,             \* physical angle of each wheel, in half-steps
    since_home,        \* half-steps of each wheel since its last homing cycle completed, -1 before the first
    nsteps,            \* half-steps since the running operation, or its homing cycle, began or ended
    nhomes,            \* homing cycles completed since the running operation began
    low_run,           \* consecutive LOW samples seen by the running homing cycle
    high_run,          \* consecutive HIGH samples seen by the running homing cycle
    ever_low,          \* the running homing cycle has sampled LOW
    debounce_log,      \* the debounced level that ended each seeking loop of the homing cycle
    arg_pos,           \* stepper_pos of the wheel when step_to_position was entered
    arg_step,          \* drive_step of the wheel when step_to_position was entered
    arg_target,        \* target_pos as passed to step_to_position
    oplog,             \* the calls setup or the running cycle of loop has made, in order
    nudged,            \* nudges the clearing routine of setup has given each wheel
    clear_last,        \* the last sample the clearing routine took of the shared line
    clear_released,    \* the clearing routine has sampled the shared line HIGH after a nudge
    num_call           \* the running step_num: position and count it was called with, nsteps then

progVars == <<pc, stk, stepper_num, digit, target_pos, steps, total_steps,
              endstop_repeats, setup_total_steps, hr, tens, ones, now>>

wheelVars == <<stepper_pos, drive_step, pins, angle, since_home>>

envVars == <<endstop_env, arc>>

clearGhost == <<nudged, clear_last, clear_released>>

homeGhost == <<low_run, high_run, ever_low, debounce_log>>

argGhost == <<arg_pos, arg_step, arg_target, oplog>>

vars == <<pc, stk, stepper_pos, drive_step, pins, led, stepper_num, digit,
          target_pos, steps, total_steps, endstop_repeats, setup_total_steps,
          hr, tens, ones, endstop_env, angle, nsteps, nhomes, low_run,
          high_run, ever_low, debounce_log, arg_pos, arg_step, arg_target,
          oplog, arc, since_home, nudged, clear_last, clear_released,
          num_call>>

(***************************************************************************)
(* Arithmetic and pin primitives                                           *)
(***************************************************************************)
\* truncation of a value to unsigned int
U16(x) == x % UINT_RANGE

Min(a, b) == IF a < b THEN a ELSE b

AllLow == [j \in CoilPins |-> "LOW"]

digitalWrite(p, j, v) == [p EXCEPT ![j] = v]

disable_stepper_skipped(p) == p

\* the four writes of disable_stepper on the coil pins p of one stepper
disable_stepper(p) ==
    digitalWrite(digitalWrite(digitalWrite(digitalWrite(p, 0, "LOW"), 1, "LOW"), 2, "LOW"), 3, "LOW")

half_step_pins_full(p, pos) ==
    [j \in CoilPins |->
        IF j = (pos \div 2) % 4 \/ j = (pos \div 2 + 1) % 4 THEN "HIGH" ELSE "LOW"]

\* the four writes of half_step on the coil pins p of one stepper at drive step pos
half_step_pins(p, pos) ==
    IF pos % 2 = 1
    THEN digitalWrite(digitalWrite(digitalWrite(digitalWrite(p,
             (pos \div 2 + 1) % 4, "HIGH"),
             (pos \div 2 + 2) % 4, "LOW"),
             (pos \div 2 + 3) % 4, "LOW"),
             (pos \div 2) % 4, "LOW")
    ELSE digitalWrite(digitalWrite(digitalWrite(digitalWrite(p,
             (pos \div 2) % 4, "HIGH"),
             (pos \div 2 + 1) % 4, "HIGH"),
             (pos \div 2 + 2) % 4, "LOW"),
             (pos \div 2 + 3) % 4, "LOW")

\* drive_step[stepper_num] = (drive_step[stepper_num] + 1) % 8
half_step_next(pos) == (pos + 1) % 8

\* the pins of all steppers after half_step(n)
HalfStepped(n) == [pins EXCEPT ![n] = half_step_pins(pins[n], drive_step[n])]

\* half_step(n), but for the pins: the drive step, the wheel's angle, the counts
half_step(n) ==
    /\ drive_step' = [drive_step EXCEPT ![n] = half_step_next(drive_step[n])]
    /\ angle' = IF endstop_env = "switch"
                THEN [angle EXCEPT ![n] = (@ + 1) % STEPS_PER_REV]
                ELSE angle
    /\ nsteps' = nsteps + 1
    /\ since_home' = IF since_home[n] < 0
                     THEN since_home
                     ELSE [since_home EXCEPT ![n] = @ + 1]

(***************************************************************************)
(* The endstop lines.  Each line is an input with pull-up, closed to       *)
(* ground by the switch of every wheel wired to it, so pressed reads LOW.  *)
(*   "switch": a noise-free switch per wheel, pressed on the arc           *)
(*             [0, arc) of the wheel's angle                               *)
(*   "open":   a broken wire, every sample reads HIGH                      *)
(*   "short":  a stuck switch, every sample reads LOW                      *)
(*   "noisy":  any sample may read either level                            *)
(***************************************************************************)
Pressed(a) == a < arc

digitalRead(pin) ==
    CASE endstop_env = "noisy" -> {"LOW", "HIGH"}
      [] endstop_env = "open"  -> {"HIGH"}
      [] endstop_env = "short" -> {"LOW"}
      [] OTHER -> IF \E v \in Steppers : endstop_pins[v] = pin /\ Pressed(angle[v])
                  THEN {"LOW"} ELSE {"HIGH"}

(***************************************************************************)
(* Calls and returns                                                       *)
(***************************************************************************)
Call(entry, ret) ==
    /\ pc' = entry
    /\ stk' = <<ret>> \o stk

Return ==
    /\ pc' = Head(stk)
    /\ stk' = Tail(stk)

(***************************************************************************)
(* e_stop: blink LED_PIN forever                                           *)
(***************************************************************************)
EStopHigh ==
    /\ pc = "e_stop"
    /\ led' = "HIGH"
    /\ pc' = "e_stop_low"
    /\ UNCHANGED <<stk, stepper_num, digit, target_pos, steps, total_steps,
                   endstop_repeats, setup_total_steps, hr, tens, ones, now>>
    /\ UNCHANGED <<wheelVars, envVars, clearGhost, num_call, nsteps, nhomes, homeGhost, argGhost>>

EStopLow ==
    /\ pc = "e_stop_low"
    /\ led' = "LOW"
    /\ pc' = "e_stop"
    /\ UNCHANGED <<stk, stepper_num, digit, target_pos, steps, total_steps,
                   endstop_repeats, setup_total_steps, hr, tens, ones, now>>
    /\ UNCHANGED <<wheelVars, envVars, clearGhost, num_call, nsteps, nhomes, homeGhost, argGhost>>

(***************************************************************************)
(* step_num                                                                *)
(***************************************************************************)
step_num_pos_unwrapped(pos, n) == U16(pos + n)

\* stepper_pos[stepper_num] = (stepper_pos[stepper_num] + steps) % STEPS_PER_REV
step_num_pos(pos, n) == U16(pos + n) % STEPS_PER_REV

\* no step_num is running
NoCall == [pos |-> 0, count |-> 0, base |-> 0]

StepNumEnter ==
    /\ pc = "step_num"
    /\ num_call' = [pos |-> stepper_pos[stepper_num], count |-> steps, base |-> nsteps]
    /\ stepper_pos' = [stepper_pos EXCEPT
                          ![stepper_num] = step_num_pos(stepper_pos[stepper_num], steps)]
    /\ pc' = "step_num_loop"
    /\ UNCHANGED <<stk, stepper_num, digit, target_pos, steps, total_steps,
                   endstop_repeats, setup_total_steps, hr, tens, ones, now>>
    /\ UNCHANGED <<drive_step, pins, angle, since_home, led, envVars, clearGhost,
                   nsteps, nhomes, homeGhost, argGhost>>

StepNumStep ==
    /\ pc = "step_num_loop"
    /\ steps > 0
    /\ half_step(stepper_num)
    /\ pins' = HalfStepped(stepper_num)
    /\ steps' = steps - 1
    /\ UNCHANGED <<pc, stk, stepper_num, digit, target_pos, total_steps,
                   endstop_repeats, setup_total_steps, hr, tens, ones, now>>
    /\ UNCHANGED <<stepper_pos, led, envVars, clearGhost, num_call, nhomes, homeGhost, argGhost>>

StepNumReturn ==
    /\ pc = "step_num_loop"
    /\ ~(steps > 0)
    /\ Return
    /\ num_call' = NoCall
    /\ UNCHANGED <<stepper_num, digit, target_pos, steps, total_steps,
                   endstop_repeats, setup_total_steps, hr, tens, ones, now>>
    /\ UNCHANGED <<wheelVars, led, envVars, clearGhost, nsteps, nhomes, homeGhost, argGhost>>

(***************************************************************************)
(* step_to_home                                                            *)
(***************************************************************************)
HomingCeilingHit_early(total) == total >= STEPS_PER_REV * 2

HomingCeilingHit_late(total) == total > STEPS_PER_REV * 2 + 1

\* if(total_steps > STEPS_PER_REV * 2u)
HomingCeilingHit(total) == total > STEPS_PER_REV * 2

\* endstop_repeats = digitalRead(...) == level ? endstop_repeats + 1 : 0
DebounceCount(read, level, repeats) == IF read = level THEN repeats + 1 ELSE 0

FirstSeekLevel_high == "HIGH"

\* the level the first loop of step_to_home waits for
FirstSeekLevel == "LOW"

SecondSeekLevel_low == "LOW"

\* the level the second loop of step_to_home waits for
SecondSeekLevel == "HIGH"

next_loop_total_reset(total) == 0

\* total_steps when a seeking loop is left for the next: only endstop_repeats
\* is set to 0 between the loops
next_loop_total(total) == total

StepToHomeEnter ==
    /\ pc = "step_to_home"
    /\ total_steps' = 0
    /\ endstop_repeats' = 0
    /\ pc' = "home_loop1"
    /\ nsteps' = 0
    /\ low_run' = 0
    /\ high_run' = 0
    /\ ever_low' = FALSE
    /\ debounce_log' = <<>>
    /\ UNCHANGED <<stk, stepper_num, digit, target_pos, steps,
                   setup_total_steps, hr, tens, ones, now>>
    /\ UNCHANGED <<wheelVars, led, envVars, clearGhost, num_call, nhomes, argGhost>>

\* what the samples themselves show when a seeking loop ends
Debounced(lo, hi) ==
    IF lo >= ENDSTOP_DEBOUNCE_READS THEN "LOW"
    ELSE IF hi >= ENDSTOP_DEBOUNCE_READS THEN "HIGH"
    ELSE "none"

\* one iteration of a seeking loop of step_to_home: here is the loop's label,
\* level the level it waits for, there the label after the loop
HomeSeek(here, level, there) ==
    /\ pc = here
    /\ endstop_repeats < ENDSTOP_DEBOUNCE_READS
    /\ \E read \in digitalRead(endstop_pins[stepper_num]) :
         LET repeats == DebounceCount(read, level, endstop_repeats)
             total == U16(total_steps + 1)
             lo == IF read = "LOW" THEN Min(low_run + 1, ENDSTOP_DEBOUNCE_READS) ELSE 0
             hi == IF read = "HIGH" THEN Min(high_run + 1, ENDSTOP_DEBOUNCE_READS) ELSE 0
         IN  /\ half_step(stepper_num)
             /\ total_steps' = IF ~HomingCeilingHit(total)
                                  /\ repeats >= ENDSTOP_DEBOUNCE_READS
                               THEN next_loop_total(total)
                               ELSE total
             /\ low_run' = lo
             /\ high_run' = hi
             /\ ever_low' = (ever_low \/ read = "LOW")
             /\ IF HomingCeilingHit(total)
                THEN /\ pins' = [HalfStepped(stepper_num) EXCEPT
                                    ![stepper_num] = disable_stepper(@)]
                     /\ pc' = "e_stop"
                     /\ endstop_repeats' = repeats
                     /\ UNCHANGED debounce_log
                ELSE /\ pins' = HalfStepped(stepper_num)
                     /\ IF repeats < ENDSTOP_DEBOUNCE_READS
                        THEN /\ pc' = here
                             /\ endstop_repeats' = repeats
                             /\ UNCHANGED debounce_log
                        ELSE /\ pc' = there
                             /\ endstop_repeats' = 0
                             /\ debounce_log' = Append(debounce_log, Debounced(lo, hi))
    /\ UNCHANGED <<stk, stepper_num, digit, target_pos, steps,
                   setup_total_steps, hr, tens, ones, now>>
    /\ UNCHANGED <<stepper_pos, led, envVars, clearGhost, num_call, nhomes, argGhost>>

HomeLoop1 == HomeSeek("home_loop1", FirstSeekLevel, "home_loop2")

HomeLoop2 == HomeSeek("home_loop2", SecondSeekLevel, "home_ret")

homed_pos_kept(pos) == pos

\* stepper_pos[stepper_num] = 0
homed_pos(pos) == 0

homed_step_reset(d) == 0

\* drive_step[stepper_num] when step_to_home returns: it is not assigned
homed_step(d) == d

\* stepper_pos[stepper_num] = 0, and the return
StepToHomeReturn ==
    /\ pc = "home_ret"
    /\ stepper_pos' = [stepper_pos EXCEPT ![stepper_num] = homed_pos(@)]
    /\ drive_step' = [drive_step EXCEPT ![stepper_num] = homed_step(@)]
    /\ Return
    /\ total_steps' = 0
    /\ endstop_repeats' = 0
    /\ nhomes' = nhomes + 1
    /\ nsteps' = 0
    /\ since_home' = [since_home EXCEPT ![stepper_num] = 0]
    /\ UNCHANGED <<stepper_num, digit, target_pos, steps,
                   setup_total_steps, hr, tens, ones, now>>
    /\ UNCHANGED <<pins, angle, led, envVars, clearGhost, num_call,
                   homeGhost, argGhost>>

(***************************************************************************)
(* step_to_position                                                        *)
(***************************************************************************)
normalize_target_skipped(target) == target

\* target_pos %= STEPS_PER_REV
normalize_target(target) == target % STEPS_PER_REV

must_rehome_or_equal(target, pos) == target <= pos

must_rehome_never(target, pos) == FALSE

\* if (target_pos < stepper_pos[stepper_num])
must_rehome(target, pos) == target < pos

StepToPositionEnter ==
    /\ pc = "step_to_position"
    /\ arg_pos' = stepper_pos[stepper_num]
    /\ arg_step' = drive_step[stepper_num]
    /\ arg_target' = target_pos
    /\ UNCHANGED oplog
    /\ nsteps' = 0
    /\ nhomes' = 0
    /\ IF target_pos = stepper_pos[stepper_num]
       THEN /\ Return
            /\ target_pos' = 0
            /\ UNCHANGED steps
       ELSE LET target == normalize_target(target_pos)
            IN  IF must_rehome(target, stepper_pos[stepper_num])
                THEN /\ target_pos' = target
                     /\ Call("step_to_home", "pos_after_home")
                     /\ UNCHANGED steps
                ELSE /\ target_pos' = target
                     /\ steps' = U16(target - stepper_pos[stepper_num])
                     /\ Call("step_num", "pos_ret")
    /\ UNCHANGED <<stepper_num, digit, total_steps, endstop_repeats,
                   setup_total_steps, hr, tens, ones, now>>
    /\ UNCHANGED <<wheelVars, led, envVars, clearGhost, num_call, homeGhost>>

\* step_num(stepper_num, target_pos, wait) after step_to_home
StepToPositionAfterHome ==
    /\ pc = "pos_after_home"
    /\ steps' = target_pos
    /\ Call("step_num", "pos_ret")
    /\ UNCHANGED <<stepper_num, digit, target_pos, total_steps, endstop_repeats,
                   setup_total_steps, hr, tens, ones, now>>
    /\ UNCHANGED <<wheelVars, led, envVars, clearGhost, num_call, nsteps, nhomes, homeGhost, argGhost>>

StepToPositionReturn ==
    /\ pc = "pos_ret"
    /\ target_pos' = 0
    /\ Return
    /\ UNCHANGED <<stepper_num, digit, steps, total_steps, endstop_repeats,
                   setup_total_steps, hr, tens, ones, now>>
    /\ UNCHANGED <<wheelVars, led, envVars, clearGhost, num_call, nsteps, nhomes, homeGhost, argGhost>>

(***************************************************************************)
(* step_to_digit                                                           *)
(***************************************************************************)
num_flaps(n) == IF n = 2 THEN 10 ELSE 12

num_digits(n) == IF n = 0 THEN 12 ELSE IF n = 1 THEN 6 ELSE 10

digit_target_flap_first(n, d) ==
    U16(starting_offset[n]
        + U16(U16((num_digits(n) + d - starting_digits[n]) % num_digits(n))
              * (STEPS_PER_REV \div num_flaps(n))))

digit_target_by_digits(n, d) ==
    U16(starting_offset[n]
        + U16(U16((num_digits(n) + d - starting_digits[n]) % num_digits(n))
              * STEPS_PER_REV) \div num_digits(n))

\* starting_offset[stepper_num] + (unsigned int)((num_digits + digit
\*   - starting_digits[stepper_num]) % num_digits) * STEPS_PER_REV/num_flaps,
\* the product taken first, in unsigned int
digit_target(n, d) ==
    U16(starting_offset[n]
        + U16(U16((num_digits(n) + d - starting_digits[n]) % num_digits(n))
              * STEPS_PER_REV) \div num_flaps(n))

\* second_target = target_pos + STEPS_PER_REV/2
second_target(target) == U16(target + STEPS_PER_REV \div 2)

use_second_from_target(pos, target, second) == pos >= target /\ pos <= second

\* if(stepper_pos[stepper_num] > target_pos && stepper_pos[stepper_num] <= second_target)
use_second(pos, target, second) == pos > target /\ pos <= second

StepToDigitEnter ==
    /\ pc = "step_to_digit"
    /\ LET target == digit_target(stepper_num, digit)
           second == second_target(target)
       IN  target_pos' = IF stepper_num = 1
                            /\ use_second(stepper_pos[stepper_num], target, second)
                         THEN second
                         ELSE target
    /\ Call("step_to_position", "digit_disable")
    /\ UNCHANGED <<stepper_num, digit, steps, total_steps, endstop_repeats,
                   setup_total_steps, hr, tens, ones, now>>
    /\ UNCHANGED <<wheelVars, led, envVars, clearGhost, num_call, nsteps, nhomes, homeGhost, argGhost>>

StepToDigitDisable_forgotten ==
    /\ pc = "digit_disable"
    /\ digit' = 0
    /\ Return
    /\ UNCHANGED <<stepper_num, target_pos, steps, total_steps, endstop_repeats,
                   setup_total_steps, hr, tens, ones, now>>
    /\ UNCHANGED <<wheelVars, led, envVars, clearGhost, num_call, nsteps, nhomes, homeGhost, argGhost>>

\* disable_stepper(stepper_num), and the return
StepToDigitDisable ==
    /\ pc = "digit_disable"
    /\ pins' = [pins EXCEPT ![stepper_num] = disable_stepper(@)]
    /\ digit' = 0
    /\ Return
    /\ UNCHANGED <<stepper_num, target_pos, steps, total_steps, endstop_repeats,
                   setup_total_steps, hr, tens, ones, now>>
    /\ UNCHANGED <<stepper_pos, drive_step, angle, since_home, led, envVars, clearGhost, num_call, nsteps,
                   nhomes, homeGhost, argGhost>>

(***************************************************************************)
(* Values the state starts from                                            *)
(***************************************************************************)
\* the local now of loop before the clock is read
NoReading == [hour |-> 0, minute |-> 0, dst |-> FALSE]

\* the locals of setup, loop, step_num and step_to_home before any of them ran
InitLocals ==
    /\ led = "HIGH"
    /\ steps = 0
    /\ total_steps = 0
    /\ endstop_repeats = 0
    /\ setup_total_steps = 0
    /\ hr = 0 /\ tens = 0 /\ ones = 0
    /\ now = NoReading

\* the clearing routine of setup has nudged no wheel
NoNudges == (1 :> 0) @@ (2 :> 0)

InitGhosts ==
    /\ nudged = NoNudges
    /\ clear_last = "none"
    /\ clear_released = FALSE
    /\ num_call = NoCall
    /\ nsteps = 0
    /\ nhomes = 0
    /\ low_run = 0
    /\ high_run = 0
    /\ ever_low = FALSE
    /\ debounce_log = <<>>
    /\ arg_pos = 0
    /\ arg_step = 0
    /\ arg_target = 0
    /\ oplog = <<>>

(***************************************************************************)
(* setup                                                                   *)
(***************************************************************************)
\* pin modes, LED off, rtc.begin(); setting the clock after a power loss
\* changes nothing the sketch keeps
SetupBegin ==
    /\ pc = "setup"
    /\ led' = "HIGH"
    /\ \E rtc_ok \in BOOLEAN :
         pc' = IF rtc_ok THEN "setup_clear" ELSE "e_stop"
    /\ UNCHANGED <<stk, stepper_num, digit, target_pos, steps, total_steps,
                   endstop_repeats, setup_total_steps, hr, tens, ones, now>>
    /\ UNCHANGED <<wheelVars, envVars, clearGhost, num_call, nsteps, nhomes, homeGhost, argGhost>>

ClearCeilingHit_doubled(total) == total > STEPS_PER_REV * 2

\* if(total_steps > STEPS_PER_REV)
ClearCeilingHit(total) == total > STEPS_PER_REV

\* total_steps += 200; if(total_steps > STEPS_PER_REV) e_stop();
SetupClearCount ==
    LET total == U16(setup_total_steps + CLEAR_NUDGE)
    IN  /\ setup_total_steps' = total
        /\ pc' = IF ClearCeilingHit(total) THEN "e_stop" ELSE "setup_clear"
        /\ UNCHANGED stk

\* the clearing routine samples the shared line and reads read
ClearSampled(read) ==
    /\ clear_last' = read
    /\ clear_released' = (clear_released \/ (read = "HIGH" /\ nudged[1] > 0))

\* while(digitalRead(endstop_pins[1]) == LOW) step_num(1, 200, ...)
SetupClearTest ==
    /\ pc = "setup_clear"
    /\ \E read \in digitalRead(endstop_pins[1]) :
         /\ ClearSampled(read)
         /\ IF endstop_pins[1] = endstop_pins[2] /\ read = "LOW"
            THEN /\ stepper_num' = 1
                 /\ steps' = CLEAR_NUDGE
                 /\ Call("step_num", "setup_clear_261")
                 /\ nudged' = [nudged EXCEPT ![1] = @ + 1]
            ELSE /\ pc' = "setup_278"
                 /\ UNCHANGED <<stk, stepper_num, steps, nudged>>
    /\ UNCHANGED <<digit, target_pos, total_steps, endstop_repeats,
                   setup_total_steps, hr, tens, ones, now>>
    /\ UNCHANGED <<wheelVars, led, envVars, num_call, nsteps, nhomes, homeGhost, argGhost>>

\* disable_stepper(1); if still pressed step_num(2, 200, ...)
SetupClearFirst ==
    /\ pc = "setup_clear_261"
    /\ pins' = [pins EXCEPT ![1] = disable_stepper(@)]
    /\ \E read \in digitalRead(endstop_pins[1]) :
         /\ ClearSampled(read)
         /\ IF read = "LOW"
            THEN /\ stepper_num' = 2
                 /\ steps' = CLEAR_NUDGE
                 /\ Call("step_num", "setup_clear_266")
                 /\ nudged' = [nudged EXCEPT ![2] = @ + 1]
                 /\ UNCHANGED setup_total_steps
            ELSE /\ SetupClearCount
                 /\ UNCHANGED <<stepper_num, steps, nudged>>
    /\ UNCHANGED <<digit, target_pos, total_steps, endstop_repeats,
                   hr, tens, ones, now>>
    /\ UNCHANGED <<stepper_pos, drive_step, angle, since_home, led, envVars,
                   num_call, nsteps, nhomes, homeGhost, argGhost>>

\* disable_stepper(2), and the count
SetupClearSecond ==
    /\ pc = "setup_clear_266"
    /\ pins' = [pins EXCEPT ![2] = disable_stepper(@)]
    /\ SetupClearCount
    /\ UNCHANGED <<stepper_num, digit, target_pos, steps, total_steps,
                   endstop_repeats, hr, tens, ones, now>>
    /\ UNCHANGED <<stepper_pos, drive_step, angle, since_home, led, envVars, clearGhost, num_call, nsteps,
                   nhomes, homeGhost, argGhost>>

\* step_to_home(n, STEPPER_DELAY) at label here of setup
SetupHome(here, n, there) ==
    /\ pc = here
    /\ stepper_num' = n
    /\ Call("step_to_home", there)
    /\ nhomes' = 0
    /\ oplog' = Append(oplog, <<"home", n, 0>>)
    /\ nudged' = NoNudges
    /\ clear_last' = "none"
    /\ clear_released' = FALSE
    /\ UNCHANGED <<digit, target_pos, steps, total_steps, endstop_repeats,
                   setup_total_steps, hr, tens, ones, now>>
    /\ UNCHANGED <<wheelVars, led, envVars, num_call, nsteps, homeGhost,
                   arg_pos, arg_step, arg_target>>

\* step_to_digit(n, d, STEPPER_DELAY) at label here of setup or loop
ShowDigit(here, n, d, there) ==
    /\ pc = here
    /\ stepper_num' = n
    /\ digit' = d
    /\ Call("step_to_digit", there)
    /\ oplog' = Append(oplog, <<"digit", n, d>>)
    /\ UNCHANGED <<target_pos, steps, total_steps, endstop_repeats,
                   setup_total_steps, hr, tens, ones, now>>
    /\ UNCHANGED <<wheelVars, led, envVars, clearGhost, num_call, nsteps, nhomes, homeGhost,
                   arg_pos, arg_step, arg_target>>

SetupHomeOnes == SetupHome("setup_278", 2, "setup_279")

SetupDigitOnes == ShowDigit("setup_279", 2, starting_digits[2], "setup_280")

SetupHomeTens_hours_first == SetupHome("setup_280", 0, "setup_281")

SetupHomeTens == SetupHome("setup_280", 1, "setup_281")

SetupDigitTens == ShowDigit("setup_281", 1, starting_digits[1], "setup_282")

SetupHomeHours == SetupHome("setup_282", 0, "setup_283")

SetupDigitHours == ShowDigit("setup_283", 0, starting_digits[0], "setup_284")

\* setup returns and loop is called
SetupReturn ==
    /\ pc = "setup_284"
    /\ pc' = "loop"
    /\ setup_total_steps' = 0
    /\ UNCHANGED <<stk, stepper_num, digit, target_pos, steps, total_steps,
                   endstop_repeats, hr, tens, ones, now>>
    /\ UNCHANGED <<wheelVars, led, envVars, clearGhost, num_call, nsteps, nhomes, homeGhost, argGhost>>

(***************************************************************************)
(* loop                                                                    *)
(***************************************************************************)
\* the readings the clock gives: hour, minute, and whether the reading lies
\* between the daylight saving cutoffs
ClockReadings ==
    { [hour |-> 0,  minute |-> 0,  dst |-> FALSE],
      [hour |-> 23, minute |-> 9,  dst |-> FALSE],
      [hour |-> 11, minute |-> 59, dst |-> TRUE],
      [hour |-> 5,  minute |-> 45, dst |-> TRUE],
      [hour |-> 12, minute |-> 30, dst |-> FALSE] }

\* now = rtc.now() and the three digits, the clock giving one of readings
LoopReadFrom(readings) ==
    /\ pc = "loop"
    /\ \E reading \in readings :
         /\ now' = reading
         /\ hr' = IF reading.dst
                  THEN ((reading.hour % 12) + 1) % 12
                  ELSE reading.hour % 12
         /\ tens' = reading.minute \div 10
         /\ ones' = reading.minute % 10
    /\ pc' = "loop_310"
    /\ oplog' = <<>>
    /\ UNCHANGED <<stk, stepper_num, digit, target_pos, steps, total_steps,
                   endstop_repeats, setup_total_steps>>
    /\ UNCHANGED <<wheelVars, led, envVars, clearGhost, num_call, nsteps, nhomes, homeGhost,
                   arg_pos, arg_step, arg_target>>

LoopRead == LoopReadFrom(ClockReadings)

LoopOnes == ShowDigit("loop_310", 2, ones, "loop_311")

LoopTens == ShowDigit("loop_311", 1, tens, "loop_312")

LoopHours == ShowDigit("loop_312", 0, hr, "loop_313")

\* loop returns, its locals are gone, and it is called again
LoopReturn ==
    /\ pc = "loop_313"
    /\ pc' = "loop"
    /\ now' = NoReading
    /\ hr' = 0
    /\ tens' = 0
    /\ ones' = 0
    /\ arg_pos' = 0
    /\ arg_step' = 0
    /\ arg_target' = 0
    /\ nsteps' = 0
    /\ nhomes' = 0
    /\ UNCHANGED <<stk, stepper_num, digit, target_pos, steps, total_steps,
                   endstop_repeats, setup_total_steps>>
    /\ UNCHANGED <<wheelVars, led, envVars, clearGhost, num_call, homeGhost, oplog>>

(***************************************************************************)
(* The sketch: setup, then loop forever                                    *)
(***************************************************************************)
\* angles the wheels may be at when the sketch starts
InitAngles == {8, 2000}

Init ==
    /\ pc = "setup"
    /\ stk = <<>>
    /\ stepper_num = 0
    /\ stepper_pos = [n \in Steppers |-> 0]
    /\ drive_step = [n \in Steppers |-> 0]
    /\ pins = [n \in Steppers |-> AllLow]
    /\ led = "LOW"
    /\ digit = 0
    /\ target_pos = 0
    /\ steps = 0
    /\ total_steps = 0
    /\ endstop_repeats = 0
    /\ setup_total_steps = 0
    /\ hr = 0 /\ tens = 0 /\ ones = 0
    /\ now = NoReading
    /\ endstop_env \in {"switch", "open", "short"}
    /\ angle \in [Steppers -> InitAngles]
    /\ endstop_env # "switch" => angle = [n \in Steppers |-> 8]
    /\ arc = ArcLen
    /\ since_home = [n \in Steppers |-> -1]
    /\ InitGhosts

Next ==
    \/ SetupBegin
    \/ SetupClearTest
    \/ SetupClearFirst
    \/ SetupClearSecond
    \/ SetupHomeOnes
    \/ SetupDigitOnes
    \/ SetupHomeTens
    \/ SetupDigitTens
    \/ SetupHomeHours
    \/ SetupDigitHours
    \/ SetupReturn
    \/ LoopRead
    \/ LoopOnes
    \/ LoopTens
    \/ LoopHours
    \/ LoopReturn
    \/ StepToDigitEnter
    \/ StepToDigitDisable
    \/ StepToPositionEnter
    \/ StepToPositionAfterHome
    \/ StepToPositionReturn
    \/ StepNumEnter
    \/ StepNumStep
    \/ StepNumReturn
    \/ StepToHomeEnter
    \/ HomeLoop1
    \/ HomeLoop2
    \/ StepToHomeReturn
    \/ EStopHigh
    \/ EStopLow

Spec == Init /\ [][Next]_vars

(***************************************************************************)
(* A homing cycle on its own: step_to_home called for any wheel, with      *)
(* any sequence of endstop samples                                         *)
(***************************************************************************)
\* drive step a wheel is started at
StartStep(n) == (5 * n) % 8

\* coil pins of a stepper left energised after the half-step before drive step d
Energised(d) == half_step_pins(AllLow, (d + 7) % 8)

\* angle at which a homing cycle ends under a noise-free switch
HomeAngle == ArcLen + ENDSTOP_DEBOUNCE_READS

\* angle of a wheel at rest at position pos after such a homing cycle
RestAngle(pos) == (HomeAngle + pos) % STEPS_PER_REV

InitHome ==
    /\ pc = "step_to_home"
    /\ stk = <<"done">>
    /\ stepper_num \in Steppers
    /\ stepper_pos = [n \in Steppers |-> IF n = stepper_num THEN 1706 ELSE 0]
    /\ drive_step = [n \in Steppers |-> StartStep(n)]
    /\ pins = [n \in Steppers |->
                 IF n = stepper_num THEN Energised(StartStep(n)) ELSE AllLow]
    /\ digit = 0
    /\ target_pos = 0
    /\ endstop_env = "noisy"
    /\ angle = [n \in Steppers |-> 0]
    /\ arc = ArcLen
    /\ since_home = stepper_pos
    /\ InitLocals
    /\ InitGhosts

NextHome ==
    \/ StepToHomeEnter
    \/ HomeLoop1
    \/ HomeLoop2
    \/ StepToHomeReturn
    \/ EStopHigh
    \/ EStopLow

SpecHome == InitHome /\ [][NextHome]_vars

(***************************************************************************)
(* step_to_position on its own: called for a wheel at a given position     *)
(* with a given target, and called again with the same target when it      *)
(* returns                                                                 *)
(***************************************************************************)
MovePositions == {0, 110, 4095}

MoveTargets == {0, 110, 4095, 4096, 4206, 65535}

MoveInputs ==
    (Steppers \X MovePositions \X MoveTargets \X {"switch"})
        \cup {<<2, 110, 0, "noisy">>, <<0, 110, 0, "open">>}

InitMove ==
    /\ pc = "step_to_position"
    /\ stk = <<"move_again", "done">>
    /\ \E in \in MoveInputs :
         /\ stepper_num = in[1]
         /\ stepper_pos = [n \in Steppers |-> IF n = in[1] THEN in[2] ELSE 0]
         /\ target_pos = in[3]
         /\ endstop_env = in[4]
    /\ drive_step = [n \in Steppers |-> StartStep(n)]
    /\ pins = [n \in Steppers |-> AllLow]
    /\ digit = 0
    /\ angle = [n \in Steppers |->
                  IF endstop_env = "switch" THEN RestAngle(stepper_pos[n]) ELSE 0]
    /\ arc = ArcLen
    /\ since_home = stepper_pos
    /\ InitLocals
    /\ InitGhosts

\* the second call, with the target the first was given
MoveAgain ==
    /\ pc = "move_again"
    /\ target_pos' = arg_target
    /\ pc' = "step_to_position"
    /\ UNCHANGED <<stk, stepper_num, digit, steps, total_steps, endstop_repeats,
                   setup_total_steps, hr, tens, ones, now>>
    /\ UNCHANGED <<wheelVars, led, envVars, clearGhost, num_call, nsteps, nhomes, homeGhost, argGhost>>

NextMove ==
    \/ StepToPositionEnter
    \/ StepToPositionAfterHome
    \/ StepToPositionReturn
    \/ StepNumEnter
    \/ StepNumStep
    \/ StepNumReturn
    \/ StepToHomeEnter
    \/ HomeLoop1
    \/ HomeLoop2
    \/ StepToHomeReturn
    \/ EStopHigh
    \/ EStopLow
    \/ MoveAgain

SpecMove == InitMove /\ [][NextMove]_vars

(***************************************************************************)
(* The planning step of step_to_digit on its own: the target it computes   *)
(* and hands to step_to_position, for every digit of every wheel; for the  *)
(* tens wheel from every position                                          *)
(***************************************************************************)
PlanPositions(n) == IF n = 1 THEN 0 .. STEPS_PER_REV - 1 ELSE MovePositions

InitPlan ==
    /\ pc = "step_to_digit"
    /\ stk = <<"done">>
    /\ stepper_num \in Steppers
    /\ digit \in 0 .. num_digits(stepper_num) - 1
    /\ \E p \in PlanPositions(stepper_num) :
         stepper_pos = [n \in Steppers |-> IF n = stepper_num THEN p ELSE 0]
    /\ drive_step = [n \in Steppers |-> StartStep(n)]
    /\ pins = [n \in Steppers |-> AllLow]
    /\ target_pos = 0
    /\ endstop_env = "switch"
    /\ angle = [n \in Steppers |-> RestAngle(stepper_pos[n])]
    /\ arc = ArcLen
    /\ since_home = stepper_pos
    /\ InitLocals
    /\ InitGhosts

NextPlan ==
    \/ StepToDigitEnter
    \/ StepToPositionEnter

SpecPlan == InitPlan /\ [][NextPlan]_vars

(***************************************************************************)
(* Properties of a homing cycle                                            *)
(***************************************************************************)
Halted == pc \in {"e_stop", "e_stop_low"}

Homing == pc \in {"home_loop1", "home_loop2", "home_ret"}

\* C4 as stated: a completed homing cycle first debounced "not pressed"
\* (HIGH) and then "pressed" (LOW), and left the position at 0.
C4_ReleasedThenPressed ==
    pc = "done" =>
        /\ debounce_log = <<"HIGH", "LOW">>
        /\ stepper_pos[stepper_num] = 0

\* C4 as amended: the first seeking loop ends only on ENDSTOP_DEBOUNCE_READS
\* consecutive pressed (LOW) samples, the second only on
\* ENDSTOP_DEBOUNCE_READS consecutive not-pressed (HIGH) samples, the cycle
\* completes only after both, in that order, and leaves the position at 0.
C4_PressedThenReleased ==
    /\ pc = "home_loop1" => debounce_log = <<>>
    /\ pc = "home_loop2" => debounce_log = <<"LOW">>
    /\ pc \in {"home_ret", "done"} => debounce_log = <<"LOW", "HIGH">>
    /\ pc = "done" => stepper_pos[stepper_num] = 0 /\ nhomes = 1

C4_Witness ==
    /\ pc = "done"
    /\ nhomes = 1
    /\ debounce_log = <<"LOW", "HIGH">>
    /\ stepper_pos[stepper_num] = 0

\* C5: while no sample of the homing cycle has read pressed (LOW), the
\* cycle is still in its first loop with at most 2 x STEPS_PER_REV
\* half-steps taken, or it has halted after exactly 2 x STEPS_PER_REV + 1
\* half-steps; it never completes and never steps again after the halt.
C5_NeverPressedFailsAtCeiling ==
    ~ever_low =>
        \/ pc = "step_to_home" /\ nsteps = 0
        \/ pc = "home_loop1" /\ nsteps <= 2 * STEPS_PER_REV
        \/ Halted /\ nsteps = 2 * STEPS_PER_REV + 1

C5_Witness ==
    /\ Halted
    /\ ~ever_low
    /\ nsteps = 2 * STEPS_PER_REV + 1
    /\ total_steps = 2 * STEPS_PER_REV + 1

\* C6: whenever the halt has been entered the coils of the wheel that was
\* being homed are all low, and from then on the control flow stays in the
\* halt and no position, drive step, coil pin or half-step count changes.
C6_FailedHomingIsTerminal ==
    /\ [](Halted => pins[stepper_num] = AllLow)
    /\ [][Halted => /\ Halted'
                    /\ UNCHANGED <<stepper_pos, drive_step, pins, nsteps, nhomes, stk>>]_vars

C6_Witness ==
    /\ pc = "e_stop_low"
    /\ led = "HIGH"
    /\ nsteps = 2 * STEPS_PER_REV + 1
    /\ ever_low
    /\ pins[stepper_num] = AllLow

(***************************************************************************)
(* Properties of step_to_position                                          *)
(***************************************************************************)
\* the first call of step_to_position has returned
FirstMoveDone == pc = "move_again"

\* the second call of step_to_position has been entered
SecondMove ==
    /\ pc \notin {"step_to_position", "move_again"}
    /\ \A i \in 1 .. Len(stk) : stk[i] # "move_again"

\* C1: whenever step_to_position has returned, the wheel's position is the
\* target it was given modulo STEPS_PER_REV.
C1_PositionIsTargetMod ==
    pc \in {"move_again", "done"} =>
        stepper_pos[stepper_num] = arg_target % STEPS_PER_REV

C1_Witness ==
    /\ FirstMoveDone
    /\ nhomes = 1
    /\ arg_pos = 4095
    /\ arg_target = 4206
    /\ stepper_pos[stepper_num] = 110

\* C2: with the target normalised modulo STEPS_PER_REV, a call whose target
\* is not below the position never enters a homing cycle and has taken
\* exactly target - position half-steps when it returns; a call whose
\* target is below the position takes no half-step before its homing cycle,
\* runs no second one, and has completed exactly one homing cycle followed
\* by exactly target half-steps when it returns.
C2_ForwardOnlyWithRehoming ==
    LET target == arg_target % STEPS_PER_REV
    IN  /\ target >= arg_pos =>
              /\ nhomes = 0
              /\ pc \notin {"step_to_home", "home_loop1", "home_loop2",
                            "home_ret", "pos_after_home"}
        /\ pc = "step_to_home" => nsteps = 0 /\ nhomes = 0
        /\ pc \in {"home_loop1", "home_loop2", "home_ret"} => nhomes = 0
        /\ pc = "pos_after_home" => nsteps = 0 /\ nhomes = 1
        /\ FirstMoveDone =>
              IF target >= arg_pos
              THEN nhomes = 0 /\ nsteps = target - arg_pos
              ELSE nhomes = 1 /\ nsteps = target

C2_Witness ==
    /\ FirstMoveDone
    /\ arg_pos = 4095
    /\ arg_target = 110
    /\ nhomes = 1
    /\ nsteps = 110

\* C3: a second call with the same target, made when the first has returned,
\* takes no half-step, enters no homing cycle and leaves the position and
\* the drive step as the first call left them.
C3_SecondCallIsNoOp ==
    SecondMove =>
        /\ nsteps = 0
        /\ nhomes = 0
        /\ pc \notin {"step_to_home", "home_loop1", "home_loop2", "home_ret",
                      "e_stop", "e_stop_low"}
        /\ stepper_pos[stepper_num] = arg_pos
        /\ drive_step[stepper_num] = arg_step
        /\ arg_pos = arg_target % STEPS_PER_REV

C3_Witness ==
    /\ pc = "done"
    /\ arg_target = 4206
    /\ arg_pos = 110
    /\ stepper_pos[stepper_num] = 110
    /\ nsteps = 0

(***************************************************************************)
(* Properties of the target step_to_digit computes                         *)
(***************************************************************************)
\* step_to_digit has handed its target to step_to_position
Planned == pc = "step_to_position"

\* (digit_count + digit - starting_digit) mod digit_count
FlapsFromStart(n, d) == (num_digits(n) + d - starting_digits[n]) % num_digits(n)

\* C7 as stated: the target is starting_offset plus the number of flaps from
\* the starting digit times the integer STEPS_PER_REV / flap_count (for the
\* tens wheel, that or the occurrence half a revolution later).
C7_FlapStepsFirst ==
    Planned =>
        LET target == starting_offset[stepper_num]
                + FlapsFromStart(stepper_num, digit)
                  * (STEPS_PER_REV \div num_flaps(stepper_num))
        IN  \/ target_pos = target
            \/ stepper_num = 1 /\ target_pos = target + STEPS_PER_REV \div 2

\* C7 as amended: the target is starting_offset plus the integer quotient
\* of (flaps from the starting digit x STEPS_PER_REV) by flap_count, the
\* product taken first (for the tens wheel, that or the occurrence half a
\* revolution later); for the hours wheel digit 0 yields 110 and digit 5
\* yields 110 + (5 x 4096) / 12 = 1816.
C7_ProductFirst ==
    Planned =>
        LET target == starting_offset[stepper_num]
                + (FlapsFromStart(stepper_num, digit) * STEPS_PER_REV)
                  \div num_flaps(stepper_num)
        IN  /\ \/ target_pos = target
               \/ stepper_num = 1 /\ target_pos = target + STEPS_PER_REV \div 2
            /\ stepper_num = 0 /\ digit = 0 => target_pos = 110
            /\ stepper_num = 0 /\ digit = 5 => target_pos = 1816

C7_Witness ==
    /\ Planned
    /\ stepper_num = 0
    /\ digit = 5
    /\ target_pos = 1816

\* forward distance from position pos to position target
ForwardDistance(target, pos) == (target - pos + STEPS_PER_REV) % STEPS_PER_REV

\* C8: for the tens wheel, the target handed on is the second occurrence
\* exactly when target < position <= second_target and the first otherwise;
\* the occurrence handed on is never the farther of the two in forward
\* distance, and strictly between the two the second is strictly nearer.
C8_NearestOccurrence ==
    Planned /\ stepper_num = 1 =>
        LET pos == stepper_pos[1]
            target == starting_offset[1]
                + (FlapsFromStart(1, digit) * STEPS_PER_REV) \div num_flaps(1)
            second == target + STEPS_PER_REV \div 2
            other == IF target_pos = target THEN second ELSE target
        IN  /\ target_pos \in {target, second}
            /\ target_pos = second <=> (target < pos /\ pos <= second)
            /\ second < STEPS_PER_REV
            /\ ForwardDistance(target_pos, pos) < ForwardDistance(other, pos)
            /\ target < pos /\ pos < second =>
                  ForwardDistance(second, pos) < ForwardDistance(target, pos)

C8_Witness ==
    /\ Planned
    /\ stepper_num = 1
    /\ digit = 3
    /\ stepper_pos[1] = 1105
    /\ target_pos = 1104 + 2048

(***************************************************************************)
(* Properties of the whole sketch                                          *)
(***************************************************************************)
\* labels of setup and loop at which a call of step_to_digit has just returned
AfterShowDigit ==
    {"setup_280", "setup_282", "setup_284", "loop_311", "loop_312", "loop_313"}

\* labels of loop between two calls of step_to_digit
BetweenShowDigits == {"loop", "loop_310", "loop_311", "loop_312", "loop_313"}

\* C9: when step_to_digit has returned, the four coil pins of its wheel are
\* low, whatever the move was; and between the step_to_digit calls of the
\* steady-state loop the coil pins of all wheels are low.
C9_CoilsOffAfterShowDigit ==
    /\ pc \in AfterShowDigit => pins[stepper_num] = AllLow
    /\ pc \in BetweenShowDigits => \A n \in Steppers : pins[n] = AllLow

C9_Witness ==
    /\ pc = "loop_311"
    /\ nhomes = 1
    /\ nsteps > 0
    /\ stepper_num = 2
    /\ \A n \in Steppers : pins[n] = AllLow

IsPrefix(a, b) ==
    /\ Len(a) <= Len(b)
    /\ \A i \in 1 .. Len(a) : a[i] = b[i]

\* the calls of setup: home, then the starting digit, for ones, tens, hours
BootOrder ==
    << <<"home", 2, 0>>, <<"digit", 2, 9>>,
       <<"home", 1, 0>>, <<"digit", 1, 0>>,
       <<"home", 0, 0>>, <<"digit", 0, 0>> >>

\* the calls of one cycle of loop for a clock reading: ones, tens, hours
CycleOrder(reading) ==
    << <<"digit", 2, reading.minute % 10>>,
       <<"digit", 1, reading.minute \div 10>>,
       <<"digit", 0, IF reading.dst
                     THEN ((reading.hour % 12) + 1) % 12
                     ELSE reading.hour % 12>> >>

\* C10: the calls setup makes are, in order, home and starting digit of the
\* ones, the tens and the hours wheel, and the calls of a cycle of loop are
\* step_to_digit for ones, tens, hours with the digits of the one reading
\* taken at its start; a call begins only when the one before has returned,
\* the wheel of a call in progress never changes, only that wheel's
\* position, drive step or coil pins change, and the reading changes only
\* where loop begins or ends.
C10_SequentialFixedOrder ==
    /\ [](/\ pc # "loop" =>
                \/ IsPrefix(oplog, BootOrder)
                \/ IsPrefix(oplog, CycleOrder(now))
          /\ pc \in {"setup_284", "loop"} /\ now = NoReading =>
                \/ oplog = BootOrder
                \/ \E reading \in ClockReadings : oplog = CycleOrder(reading)
          /\ pc = "loop_313" => oplog = CycleOrder(now))
    /\ [][/\ oplog' # oplog /\ oplog' # <<>> =>
                /\ stk = <<>>
                /\ stk' # <<>>
                /\ stepper_num' = oplog'[Len(oplog')][2]
          /\ stk # <<>> /\ stk' # <<>> => stepper_num' = stepper_num
          /\ \A n \in Steppers :
                (\/ drive_step'[n] # drive_step[n]
                 \/ stepper_pos'[n] # stepper_pos[n]
                 \/ pins'[n] # pins[n]) => n = stepper_num
          /\ now' # now => pc = "loop" \/ pc' = "loop"]_vars

C10_Witness ==
    /\ pc = "loop_313"
    /\ now = [hour |-> 11, minute |-> 59, dst |-> TRUE]
    /\ oplog = << <<"digit", 2, 9>>, <<"digit", 1, 5>>, <<"digit", 0, 0>> >>
    /\ stepper_pos[0] = 110
    /\ stepper_pos[2] = 265
    /\ stepper_pos[1] \in {1786, 3834}

(***************************************************************************)
(* The clearing routine of setup on its own: the sketch booted with the    *)
(* two minute wheels on one endstop line, every sample of which may read   *)
(* either level, up to the first homing cycle                              *)
(***************************************************************************)
InitClear ==
    /\ pc = "setup"
    /\ stk = <<>>
    /\ stepper_num = 0
    /\ stepper_pos = [n \in Steppers |-> 0]
    /\ drive_step = [n \in Steppers |-> 0]
    /\ pins = [n \in Steppers |-> AllLow]
    /\ led = "LOW"
    /\ digit = 0
    /\ target_pos = 0
    /\ steps = 0
    /\ total_steps = 0
    /\ endstop_repeats = 0
    /\ setup_total_steps = 0
    /\ hr = 0 /\ tens = 0 /\ ones = 0
    /\ now = NoReading
    /\ endstop_env = "noisy"
    /\ angle = [n \in Steppers |-> 0]
    /\ arc = ArcLen
    /\ since_home = [n \in Steppers |-> -1]
    /\ InitGhosts

NextClear ==
    \/ SetupBegin
    \/ SetupClearTest
    \/ SetupClearFirst
    \/ SetupClearSecond
    \/ StepNumEnter
    \/ StepNumStep
    \/ StepNumReturn
    \/ EStopHigh
    \/ EStopLow

SpecClear == InitClear /\ [][NextClear]_vars

(***************************************************************************)
(* Properties of the clearing routine                                      *)
(***************************************************************************)
\* a round of the clearing routine is in progress: a wheel is being nudged
\* or has just been
InClearRound ==
    \/ pc \in {"setup_clear_261", "setup_clear_266"}
    \/ stk # <<>> /\ Head(stk) \in {"setup_clear_261", "setup_clear_266"}

\* the clearing routine is running, has exited to homing, or has halted
Clearing == pc = "setup_clear" \/ InClearRound

ClearingExited == pc = "setup_278"

ClearingHalted == Halted /\ nudged[1] > 0

\* rounds after which the count of the routine first exceeds STEPS_PER_REV
ClearRounds == STEPS_PER_REV \div CLEAR_NUDGE + 1

\* half-steps of the nudge in progress still to be taken
NudgeLeft == IF pc \in {"step_num", "step_num_loop"} THEN steps ELSE 0

\* C11 as stated: the half-steps the clearing routine drives over both
\* wheels never exceed STEPS_PER_REV.
C11_AtMostOneRevolution ==
    (Clearing \/ ClearingExited \/ ClearingHalted) => nsteps <= STEPS_PER_REV

\* C11: in the clearing routine the tens wheel is nudged first in every
\* round and the ones wheel only after it, on a sample that read pressed;
\* the routine counts CLEAR_NUDGE per round whichever wheels it nudged and
\* halts at the first count above STEPS_PER_REV, so it drives each wheel at
\* most CLEAR_NUDGE * ClearRounds half-steps and both wheels together at
\* most twice that.
C11_AtMostOneRevolutionPerWheel ==
    /\ [](Clearing \/ ClearingExited \/ ClearingHalted =>
            /\ nsteps + NudgeLeft = CLEAR_NUDGE * (nudged[1] + nudged[2])
            /\ nudged[2] <= nudged[1]
            /\ nudged[1] <= ClearRounds
            /\ nsteps <= 2 * CLEAR_NUDGE * ClearRounds
            /\ nudged[1] = setup_total_steps \div CLEAR_NUDGE
                             + (IF InClearRound THEN 1 ELSE 0)
            /\ ClearingHalted => setup_total_steps = CLEAR_NUDGE * ClearRounds)
    /\ [][nudged'[2] > nudged[2] =>
            pc = "setup_clear_261" /\ clear_last' = "LOW" /\ stepper_num' = 2]_vars
    /\ [][nudged'[1] > nudged[1] =>
            pc = "setup_clear" /\ clear_last' = "LOW" /\ stepper_num' = 1]_vars

\* the routine halts having driven both wheels more than a revolution each
C11_Witness ==
    /\ ClearingHalted
    /\ nsteps = 2 * CLEAR_NUDGE * ClearRounds
    /\ CLEAR_NUDGE * nudged[1] > STEPS_PER_REV
    /\ CLEAR_NUDGE * nudged[2] > STEPS_PER_REV

\* C12 as stated: the clearing routine halts only when every sample it took
\* of the shared line after a nudge read pressed.
C12_HaltOnlyWithoutRelease == ClearingHalted => ~clear_released

\* the sample just before the halt read released
C12_HaltedAfterRelease == ClearingHalted /\ clear_last = "HIGH"

(***************************************************************************)
(* Properties of the step count of a homing cycle                          *)
(***************************************************************************)
\* C13 as stated: the count compared against the ceiling in the second
\* seeking loop starts from zero when that loop is entered.
C13_SecondPhaseCountsFromZero ==
    [][pc = "home_loop1" /\ pc' = "home_loop2" => total_steps' = 0]_vars

\* C13: the two seeking loops share one count: total_steps is carried from
\* the first loop into the second, so throughout a homing cycle it is the
\* number of half-steps of the whole cycle, and a cycle that fails in the
\* second loop fails at 2 * STEPS_PER_REV + 1 half-steps in all, the second
\* loop having had only what the first left of them.
C13_OneCountForBothPhases ==
    /\ [](Homing => total_steps = nsteps)
    /\ [][pc = "home_loop1" /\ pc' = "home_loop2" =>
            /\ total_steps' = total_steps + 1
            /\ total_steps' >= ENDSTOP_DEBOUNCE_READS]_vars
    /\ [](Halted /\ Len(debounce_log) = 1 => nsteps = STEPS_PER_REV * 2 + 1)

\* the second loop is entered with a single half-step left below the ceiling
C13_Witness ==
    /\ pc = "home_loop2"
    /\ debounce_log = <<"LOW">>
    /\ total_steps = STEPS_PER_REV * 2

(***************************************************************************)
(* A homing cycle on its own, the processor never stopping: whatever step  *)
(* of the sketch can be taken is taken                                     *)
(***************************************************************************)
SpecHomeFair == SpecHome /\ WF_vars(NextHome)

\* step_to_home has returned
Homed == pc = "done"

\* C14: for every sequence of endstop samples a homing cycle ends, homed or
\* halted, and takes no more than 2 * STEPS_PER_REV + 1 half-steps over
\* both seeking loops before it does.
C14_HomingTerminates ==
    /\ [](Homing \/ Halted => nsteps <= 2 * STEPS_PER_REV + 1)
    /\ [][Homing /\ Homing' => nsteps' = nsteps + 1]_vars
    /\ <>(Homed \/ Halted)

\* a cycle that homes on the last half-step the ceiling allows
C14_Witness ==
    /\ pc = "home_ret"
    /\ nsteps = 2 * STEPS_PER_REV

(***************************************************************************)
(* Properties of stepper_pos and drive_step                                *)
(***************************************************************************)
InStepNum == pc \in {"step_num", "step_num_loop"}

\* C15: step_num called with count c takes exactly c half-steps of its
\* wheel and sets that wheel's position to (position + c) mod STEPS_PER_REV,
\* leaving position and drive step of the other wheels alone; a position
\* changes only at the start of step_num and, to 0, when step_to_home
\* returns, so not with the half-steps of homing; and every position stays
\* in [0, STEPS_PER_REV).
C15_StepNumFrame ==
    /\ [](\A n \in Steppers : stepper_pos[n] \in 0 .. STEPS_PER_REV - 1)
    /\ [](pc = "step_num_loop" =>
            /\ (nsteps - num_call.base) + steps = num_call.count
            /\ stepper_pos[stepper_num]
                 = (num_call.pos + num_call.count) % STEPS_PER_REV)
    /\ [][InStepNum =>
            \A m \in Steppers \ {stepper_num} :
                /\ stepper_pos'[m] = stepper_pos[m]
                /\ drive_step'[m] = drive_step[m]
                /\ angle'[m] = angle[m]]_vars
    /\ [][\A n \in Steppers :
            stepper_pos'[n] # stepper_pos[n] =>
                /\ n = stepper_num
                /\ \/ pc = "step_num"
                   \/ pc = "home_ret" /\ stepper_pos'[n] = 0]_vars
    /\ [][Homing /\ Homing' => stepper_pos' = stepper_pos /\ nsteps' = nsteps + 1]_vars

\* a step_num has taken all its half-steps and its position has wrapped
C15_Witness ==
    /\ pc = "step_num_loop"
    /\ steps = 0
    /\ num_call.count > 0
    /\ nsteps - num_call.base = num_call.count
    /\ num_call.pos + num_call.count >= STEPS_PER_REV

\* step_to_home has just returned to its caller
AfterHome == pc \in {"setup_279", "setup_281", "setup_283", "pos_after_home"}

\* C16 as stated: position and drive step are 0 at boot, and both are 0 for
\* the wheel immediately after step_to_home returns.
C16_PositionAndPhaseReset ==
    /\ pc = "setup" =>
         \A n \in Steppers : stepper_pos[n] = 0 /\ drive_step[n] = 0
    /\ AfterHome =>
         stepper_pos[stepper_num] = 0 /\ drive_step[stepper_num] = 0

\* C16: position and drive step are 0 at boot; when a homing cycle completes
\* the position is reset to 0 and the drive step is not: it stays what the
\* last half-step of the cycle left, the drive step before the cycle plus
\* the half-steps of the cycle mod 8.  With a working switch the wheels
\* start at multiples of 8 (InitAngles), so the drive step is the angle
\* mod 8 throughout.
C16_PositionResetPhaseKept ==
    /\ [](pc = "setup" =>
            \A n \in Steppers : stepper_pos[n] = 0 /\ drive_step[n] = 0)
    /\ [](AfterHome => stepper_pos[stepper_num] = 0)
    /\ [][pc = "home_ret" =>
            /\ drive_step' = drive_step
            /\ stepper_pos'[stepper_num] = 0]_vars
    /\ [](pc = "home_ret" /\ Head(stk) = "pos_after_home" =>
            drive_step[stepper_num] = (arg_step + nsteps) % 8)
    /\ [](endstop_env = "switch" =>
            \A n \in Steppers : drive_step[n] = angle[n] % 8)

\* step_to_home has returned with the position 0 and the drive step not
C16_Witness ==
    /\ AfterHome
    /\ stepper_pos[stepper_num] = 0
    /\ drive_step[stepper_num] # 0

\* the coil pins of p that are HIGH
HighPins(p) == {j \in CoilPins : p[j] = "HIGH"}

\* the pins half_step leaves HIGH at drive step d
Pattern(d) == HighPins(half_step_pins(AllLow, d))

\* pins that are HIGH in one of S and T only
Differing(S, T) == (S \ T) \cup (T \ S)

\* C17: half_step writes the four coil pins to a pattern that depends on
\* the drive step alone and then sets the drive step to (drive step + 1)
\* mod 8, so the drive step stays in [0, 8).  The pattern of an odd drive
\* step has exactly one pin HIGH, that of an even one exactly two
\* cyclically adjacent pins, so the two kinds alternate from one half-step
\* to the next, and the patterns of consecutive drive steps, 7 to 0
\* included, differ in exactly one pin.
C17_HalfStepPatterns ==
    /\ [](\A n \in Steppers : drive_step[n] \in 0 .. 7)
    /\ [](\A n \in Steppers :
            \/ pins[n] = AllLow
            \/ HighPins(pins[n]) = Pattern((drive_step[n] + 7) % 8))
    /\ [][\A n \in Steppers :
            drive_step'[n] # drive_step[n] =>
                LET d == drive_step[n]
                IN  /\ drive_step'[n] = (d + 1) % 8
                    /\ \/ HighPins(pins'[n]) = Pattern(d)
                       \/ pins'[n] = AllLow /\ pc' = "e_stop"
                    /\ IF d % 2 = 1
                       THEN Cardinality(Pattern(d)) = 1
                       ELSE /\ Cardinality(Pattern(d)) = 2
                            /\ \E j \in CoilPins : Pattern(d) = {j, (j + 1) % 4}
                    /\ Cardinality(Differing(Pattern(d), Pattern((d + 1) % 8))) = 1]_vars
    /\ [][\A n \in Steppers :
            pins[n] # AllLow /\ pins'[n] # AllLow /\ pins'[n] # pins[n] =>
                /\ Cardinality(Differing(HighPins(pins[n]), HighPins(pins'[n]))) = 1
                /\ Cardinality(HighPins(pins[n])) # Cardinality(HighPins(pins'[n]))]_vars

\* a wheel has just taken the half-step of drive step 7 and is at drive step 0
C17_Witness ==
    \E n \in Steppers :
        /\ drive_step[n] = 0
        /\ pins[n] # AllLow
        /\ HighPins(pins[n]) = Pattern(7)
        /\ Pattern(7) = {0}
        /\ Pattern(0) = {0, 1}

\* half-steps wheel n has taken in the homing cycle it is in, or was in when
\* the sketch halted
HomingSteps(n) == IF n = stepper_num /\ (Homing \/ Halted) THEN nsteps ELSE 0

\* half-steps of the step_num in progress on wheel n still to be taken
StepsLeft(n) == IF pc = "step_num_loop" /\ n = stepper_num THEN steps ELSE 0

\* C18: once a wheel has been homed, every step_num that step_to_position
\* issues for it has position + count < STEPS_PER_REV, so the modulo of
\* step_num never wraps, and after a homing completion of the wheel its
\* position is the number of half-steps it has taken since that completion:
\* at every step of the sketch, with the count of a step_num in progress
\* taken as a whole (step_num adds it to the position before it steps) and
\* the half-steps of a homing cycle in progress left out (homing does not
\* change the position until it completes).
C18_NoWrapSinceHome ==
    /\ pc = "step_num" /\ Head(stk) = "pos_ret" =>
         /\ since_home[stepper_num] >= 0
         /\ stepper_pos[stepper_num] + steps < STEPS_PER_REV
    /\ \A n \in Steppers :
         since_home[n] >= 0 =>
             /\ stepper_pos[n] = since_home[n] - HomingSteps(n) + StepsLeft(n)
             /\ pc \in {"loop", "setup_284"} => stepper_pos[n] = since_home[n]

\* a wheel has been moved on from where an earlier move left it, with no
\* homing cycle in between
C18_Witness ==
    /\ pc = "pos_ret"
    /\ nhomes = 0
    /\ arg_pos > 0
    /\ stepper_pos[stepper_num] > arg_pos
    /\ since_home[stepper_num] = stepper_pos[stepper_num]

(***************************************************************************)
(* The digits of loop on their own: the clock read at any hour and minute, *)
(* in or out of daylight saving time, with the wheels where setup leaves   *)
(* them, and one of the three digits taken as far as the target that       *)
(* step_to_position is given                                               *)
(***************************************************************************)
AllReadings == [hour : 0 .. 23, minute : 0 .. 59, dst : BOOLEAN]

LoopReadAny == LoopReadFrom(AllReadings)

\* the call for the ones or the tens wheel is passed over
LoopPassOver ==
    /\ pc \in {"loop_310", "loop_311"}
    /\ pc' = IF pc = "loop_310" THEN "loop_311" ELSE "loop_312"
    /\ UNCHANGED <<stk, stepper_num, digit, target_pos, steps, total_steps,
                   endstop_repeats, setup_total_steps, hr, tens, ones, now>>
    /\ UNCHANGED <<wheelVars, led, envVars, clearGhost, num_call, nsteps, nhomes,
                   homeGhost, argGhost>>

InitClock ==
    /\ pc = "loop"
    /\ stk = <<>>
    /\ stepper_num = 0
    /\ stepper_pos = [n \in Steppers |-> digit_target(n, starting_digits[n])]
    /\ drive_step = [n \in Steppers |-> StartStep(n)]
    /\ pins = [n \in Steppers |-> AllLow]
    /\ digit = 0
    /\ target_pos = 0
    /\ endstop_env = "switch"
    /\ angle = [n \in Steppers |-> RestAngle(stepper_pos[n])]
    /\ arc = ArcLen
    /\ since_home = stepper_pos
    /\ InitLocals
    /\ InitGhosts

NextClock ==
    \/ LoopReadAny
    \/ LoopPassOver
    \/ LoopOnes
    \/ LoopTens
    \/ LoopHours
    \/ StepToDigitEnter
    \/ StepToPositionEnter

SpecClock == InitClock /\ [][NextClock]_vars

(***************************************************************************)
(* Properties of the digits requested                                      *)
(***************************************************************************)
\* digit d of wheel n is a digit of the wheel, and its target, for the tens
\* wheel the second target too, is computed without a value leaving the
\* range of unsigned int and is below STEPS_PER_REV
TargetFits(n, d) ==
    LET flap == (num_digits(n) + d - starting_digits[n]) % num_digits(n)
        product == flap * STEPS_PER_REV
        target == starting_offset[n] + product \div num_flaps(n)
        second == target + STEPS_PER_REV \div 2
    IN  /\ d \in 0 .. num_digits(n) - 1
        /\ num_digits(n) + d - starting_digits[n] >= 0
        /\ product < UINT_RANGE
        /\ target < UINT_RANGE
        /\ digit_target(n, d) = target
        /\ target < STEPS_PER_REV
        /\ normalize_target(target) = target
        /\ n = 1 =>
             /\ second < UINT_RANGE
             /\ second_target(digit_target(n, d)) = second
             /\ second < STEPS_PER_REV
             /\ normalize_target(second) = second

\* C19: every digit setup and loop request, the starting digits and, for
\* every hour, minute and daylight saving flag, the three digits of loop,
\* is a digit of its wheel; its target, and for the tens wheel the second
\* target, is below STEPS_PER_REV with no intermediate value wrapping
\* modulo 2^16; so the target step_to_position is given is one its modulo
\* leaves as it is.
C19_RequestsInRange ==
    /\ \A n \in Steppers : TargetFits(n, starting_digits[n])
    /\ pc # "loop" =>
         /\ hr = IF now.dst THEN ((now.hour % 12) + 1) % 12 ELSE now.hour % 12
         /\ tens = now.minute \div 10
         /\ ones = now.minute % 10
         /\ TargetFits(0, hr)
         /\ TargetFits(1, tens)
         /\ TargetFits(2, ones)
    /\ pc = "step_to_digit" =>
         /\ digit = (IF stepper_num = 0 THEN hr ELSE IF stepper_num = 1 THEN tens ELSE ones)
         /\ TargetFits(stepper_num, digit)
    /\ pc = "step_to_position" =>
         /\ target_pos < STEPS_PER_REV
         /\ normalize_target(target_pos) = target_pos
         /\ target_pos \in {digit_target(stepper_num, digit),
                            second_target(digit_target(stepper_num, digit))}
    /\ pc \in {"step_num", "step_to_home"} => target_pos = arg_target

\* the request with the largest product: hour 22 in daylight saving time,
\* digit 11 of the hours wheel, 11 * 4096 = 45056
C19_Witness ==
    /\ pc = "step_to_position"
    /\ stepper_num = 0
    /\ now.hour = 22 /\ now.dst
    /\ digit = 11
    /\ target_pos = 3864

(***************************************************************************)
(* A homing cycle on its own with a noise-free switch: step_to_home called *)
(* for any wheel, the switch pressed on the arc [0, arc) of the wheel's    *)
(* angle, the wheel started on the arc, at its ends or off it, the other   *)
(* wheels at rest off their switches                                       *)
(***************************************************************************)
\* arcs: the shortest and the longest that leave ENDSTOP_DEBOUNCE_READS
\* half-steps pressed and as many unpressed, and one in between
ZeroArcs == {ENDSTOP_DEBOUNCE_READS, ArcLen, STEPS_PER_REV - ENDSTOP_DEBOUNCE_READS}

\* angles to start from, for the arc [0, a)
ZeroAngles(a) ==
    {0, 1, a - ENDSTOP_DEBOUNCE_READS, a - ENDSTOP_DEBOUNCE_READS + 1, a - 1,
     a, (a + 1) % STEPS_PER_REV, (a + ENDSTOP_DEBOUNCE_READS) % STEPS_PER_REV,
     STEPS_PER_REV \div 2, STEPS_PER_REV - 1}

InitZero ==
    /\ pc = "step_to_home"
    /\ stk = <<"done">>
    /\ stepper_num \in Steppers
    /\ stepper_pos = [n \in Steppers |-> IF n = stepper_num THEN 1706 ELSE 0]
    /\ drive_step = [n \in Steppers |-> StartStep(n)]
    /\ pins = [n \in Steppers |->
                 IF n = stepper_num THEN Energised(StartStep(n)) ELSE AllLow]
    /\ digit = 0
    /\ target_pos = 0
    /\ endstop_env = "switch"
    /\ arc \in ZeroArcs
    /\ \E a \in ZeroAngles(arc) :
         angle = [n \in Steppers |-> IF n = stepper_num THEN a ELSE arc]
    /\ since_home = stepper_pos
    /\ InitLocals
    /\ InitGhosts

NextZero ==
    \/ StepToHomeEnter
    \/ HomeLoop1
    \/ HomeLoop2
    \/ StepToHomeReturn

SpecZero == InitZero /\ [][NextZero]_vars

\* the angle a homing cycle leaves the wheel at, for the arc [0, a)
ZeroAngle(a) == (a + ENDSTOP_DEBOUNCE_READS) % STEPS_PER_REV

\* C20: with a noise-free switch pressed on one arc of the wheel's angle, at
\* least ENDSTOP_DEBOUNCE_READS half-steps long and leaving at least as many
\* unpressed, step_to_home started at any angle does not fail, and leaves
\* the wheel at the angle ENDSTOP_DEBOUNCE_READS half-steps past the end of
\* the arc, whatever angle it started from.
C20_SameZeroFromAnyAngle ==
    /\ arc >= ENDSTOP_DEBOUNCE_READS
    /\ STEPS_PER_REV - arc >= ENDSTOP_DEBOUNCE_READS
    /\ ~Halted
    /\ pc \in {"home_ret", "done"} =>
         /\ angle[stepper_num] = ZeroAngle(arc)
         /\ debounce_log = <<"LOW", "HIGH">>
         /\ \A m \in Steppers \ {stepper_num} : angle[m] = arc
    /\ pc = "done" => stepper_pos[stepper_num] = 0
    /\ Homing => nsteps <= STEPS_PER_REV + 2 * ENDSTOP_DEBOUNCE_READS

\* a cycle started on the arc too near its end to count the switch pressed
\* goes round to the arc again and homes at the same angle
C20_Witness ==
    /\ pc = "home_ret"
    /\ nsteps > STEPS_PER_REV
    /\ arc = STEPS_PER_REV - ENDSTOP_DEBOUNCE_READS
    /\ angle[stepper_num] = ZeroAngle(arc)
====
